---- MODULE Spec2Model ----
(***************************************************************************)
(* Model of app.py (PDF Exam Generator).  One Streamlit process serves a   *)
(* sequence of "Generate Questions" clicks; each click runs main()'s       *)
(* pipeline: ExamGenerator() (load_models through st.cache_resource),      *)
(* extract_text_from_pdf, preprocess_text, generate_questions (encode, the *)
(* diverse-sentence selection loop, the question loop) and export_to_word. *)
(*                                                                         *)
(* Representation.                                                         *)
(*  - A text is the sequence of its sentences and a sentence is the pair   *)
(*    <<ordinal in the document, number of whitespace-separated words>>;   *)
(*    a readable PDF is represented by the text of its pages.              *)
(*  - Python lists are sequences; Python indices are 0-based, so element   *)
(*    i of a list l is At(l, i).                                           *)
(*  - An embedding is a point of the plane.  torch.dist is the Euclidean   *)
(*    distance, kept to three decimals (fixed point), and a mean is kept   *)
(*    as the fraction <<sum, count>>, compared by cross-multiplication.    *)
(***************************************************************************)
EXTENDS Integers, Sequences, FiniteSets, TLC

\* Bounds of the model.
MaxSentences == 3
MaxK == 3

\* st.slider(min_value=1, max_value=10, value=5): the slider starts at
\* SliderDefault and the user moves it within MinK..MaxK
MinK == 1
SliderDefault == 5

\* len(s.split()) > 5
MinWords == 5

\* Python None, a value distinct from every text.
None == << <<0, -1>> >>
\* An uploaded file PyPDF2 cannot read.
Unreadable == << <<0, -2>> >>

\* Input domains.
WordCounts == {MinWords, MinWords + 1}
Points == {<<0, 0>>, <<10, 0>>, <<0, 10>>, <<3, 4>>}
Texts ==
  UNION {{[i \in 1..l |-> <<i, w[i]>>] : w \in [1..l -> WordCounts]} : l \in 0..MaxSentences}
PDFs == {Unreadable} \cup Texts

VARIABLES
  cache,             \* st.cache_resource entry of load_models: "empty", "models", "none"
  loads,             \* number of executions of the body of load_models
  attempted,         \* the current run executed the body of load_models
  pc,                \* position of the current run; "idle" between runs
  uploaded_file,     \* main: uploaded_file
  num_questions,     \* main: num_questions
  text,              \* main: text
  sentences,         \* main / generate_questions: sentences
  embeddings,        \* generate_questions: embeddings
  selected_indices,  \* generate_questions: selected_indices
  pos,               \* number of completed iterations of "for idx in selected_indices"
  outcomes,          \* result of each self.qa_pipeline call of the run, in order
  questions,         \* generate_questions: questions
  reports,           \* messages shown to the user in the run (st.error / st.markdown)
  invoked,           \* stages entered in the run
  downloads          \* documents offered by st.download_button in the run

vars == <<cache, loads, attempted, pc, uploaded_file, num_questions, text,
          sentences, embeddings, selected_indices, pos, outcomes, questions,
          reports, invoked, downloads>>

----------------------------------------------------------------------------
\* Helpers

Min(a, b) == IF a < b THEN a ELSE b

Abs(x) == IF x < 0 THEN 0 - x ELSE x

Range(s) == {s[p] : p \in 1..Len(s)}

\* l[i] for a Python list l: a negative index counts from the end.
At(l, i) == l[(IF i < 0 THEN i + Len(l) ELSE i) + 1]

RECURSIVE Bisect(_, _, _)
Bisect(x, lo, hi) ==
  IF lo >= hi THEN lo
  ELSE LET mid == (lo + hi + 1) \div 2
       IN  IF mid * mid <= x THEN Bisect(x, mid, hi) ELSE Bisect(x, lo, mid - 1)

\* Euclidean distance of two points, in thousandths.
Euclid(a, b) ==
  LET dx == Abs(a[1] - b[1])
      dy == Abs(a[2] - b[2])
  IN  Bisect(1000 * 1000 * (dx * dx + dy * dy), 0, 1000 * (dx + dy))

\* the distances of the points of the model, computed once
DistTable == [a \in Points, b \in Points |-> Euclid(a, b)]

\* torch.dist(a, b)
Dist(a, b) == DistTable[a, b]

RECURSIVE SumDist(_, _)
SumDist(e, embs) ==
  IF embs = <<>> THEN 0 ELSE Dist(e, Head(embs)) + SumDist(e, Tail(embs))

\* torch.mean(torch.tensor([torch.dist(e, sel_emb) for sel_emb in selected_embeddings]))
MeanDist(e, selected_embeddings) ==
  <<SumDist(e, selected_embeddings), Len(selected_embeddings)>>

\* x > y for two fractions with positive denominators
Gt(x, y) == x[1] * y[2] > y[1] * x[2]

----------------------------------------------------------------------------
\* ExamGenerator

extract_text_from_pdf(pdf_file) ==
  IF pdf_file = Unreadable THEN None ELSE pdf_file

preprocess_text(t) ==
  IF t = None \/ t = <<>> THEN <<>>
  ELSE SelectSeq(t, LAMBDA s : s[2] > MinWords)

\* range(min(num_questions, len(sentences)))
LoopCountUnclamped(k, n) == k

LoopCount(k, n) == Min(k, n)

\* max_diff = -1
InitMaxDiffZero == <<0, 1>>

InitMaxDiff == <<-1, 1>>

\* if i not in selected_indices
IsCandidateAny(i, sel) == TRUE

IsCandidate(i, sel) == i \notin Range(sel)

\* if diff > max_diff
BetterOrEqual(diff, max_diff) == ~Gt(max_diff, diff)

Better(diff, max_diff) == Gt(diff, max_diff)

\* embeddings[selected_indices]
SelectedEmbeddings(embs, sel) == [p \in 1..Len(sel) |-> At(embs, sel[p])]

\* for i in range(len(sentences)): ... ; the value of max_idx after the scan
RECURSIVE Scan(_, _, _, _, _, _)
Scan(i, sents, embs, sel, max_diff, max_idx) ==
  IF i >= Len(sents) THEN max_idx
  ELSE LET diff == MeanDist(At(embs, i), SelectedEmbeddings(embs, sel))
       IN  IF IsCandidate(i, sel) /\ Better(diff, max_diff)
           THEN Scan(i + 1, sents, embs, sel, diff, i)
           ELSE Scan(i + 1, sents, embs, sel, max_diff, max_idx)

\* one iteration of "for _ in range(min(num_questions, len(sentences)))"
IterationPrepend(sents, embs, sel) ==
  IF sel = <<>> THEN <<0>>
  ELSE <<Scan(0, sents, embs, sel, InitMaxDiff, -1)>> \o sel

Iteration(sents, embs, sel) ==
  IF sel = <<>> THEN <<0>>
  ELSE Append(sel, Scan(0, sents, embs, sel, InitMaxDiff, -1))

\* the selection loop run for k requested questions
RECURSIVE Iterate(_, _, _, _)
Iterate(c, sents, embs, sel) ==
  IF c <= 0 THEN sel ELSE Iterate(c - 1, sents, embs, Iteration(sents, embs, sel))

Select(sents, embs, k) == Iterate(LoopCount(k, Len(sents)), sents, embs, <<>>)

\* what self.qa_pipeline("generate question: ...") can do for one sentence
Raised == [raised |-> TRUE, generated |-> <<>>]
Generated(qa_input) ==
  [raised |-> FALSE, generated |-> <<[generated_text |-> <<"question", qa_input>>]>>]
NoOutput == [raised |-> FALSE, generated |-> <<>>]
PipelineResults(qa_input) == {Raised, NoOutput, Generated(qa_input)}

\* {'question': generated[0]['generated_text'], 'answer': qa_input}
QAPair(generated, qa_input) ==
  [question |-> generated[1].generated_text, answer |-> qa_input]

\* the loop position after an iteration with result r: "continue" after an
\* exception, like the normal end of the body, goes on with the next index
AfterIterationBreak(r, p, n) == IF r.raised THEN n ELSE p + 1

AfterIteration(r, p, n) == p + 1

export_to_word(qs) ==
  [questions  |-> [i \in 1..Len(qs) |-> <<i, qs[i].question>>],
   answer_key |-> [i \in 1..Len(qs) |-> <<i, qs[i].answer>>]]

\* main: if not sentences
NoSentencesNever(sents) == FALSE

NoSentences(sents) == Len(sents) = 0

\* main: if questions
HasQuestionsAlways(qs) == TRUE

HasQuestions(qs) == Len(qs) > 0

----------------------------------------------------------------------------
\* Messages
ErrLoading == "Error loading AI models"
ErrInit == "Failed to initialize AI models"
ErrReading == "Error reading PDF"
ErrNoText == "Could not extract meaningful text from the PDF"
ErrGenerating == "Error generating question"
ErrNoQuestions == "Could not generate questions"
ErrOccurred == "An error occurred"
Success == "Successfully generated questions"

----------------------------------------------------------------------------
Init ==
  /\ cache = "empty"
  /\ loads = 0
  /\ attempted = FALSE
  /\ pc = "idle"
  /\ uploaded_file = None
  /\ num_questions = SliderDefault
  /\ text = <<>>
  /\ sentences = <<>>
  /\ embeddings = <<>>
  /\ selected_indices = <<>>
  /\ pos = 0
  /\ outcomes = <<>>
  /\ questions = <<>>
  /\ reports = <<>>
  /\ invoked = {}
  /\ downloads = <<>>

\* What a rerun of the script without a run of the pipeline leaves: the page
\* shows no result of an earlier run.
Cleared ==
  /\ text' = <<>>
  /\ sentences' = <<>>
  /\ embeddings' = <<>>
  /\ selected_indices' = <<>>
  /\ pos' = 0
  /\ outcomes' = <<>>
  /\ questions' = <<>>
  /\ invoked' = {}
  /\ downloads' = <<>>

\* The user picks a file in st.file_uploader: the script reruns, the button is
\* not pressed.
Upload ==
  /\ pc = "idle"
  /\ \E pdf \in PDFs : uploaded_file' = pdf
  /\ reports' = <<>>
  /\ attempted' = FALSE
  /\ Cleared
  /\ UNCHANGED <<cache, loads, pc, num_questions>>

\* The user moves st.slider: the script reruns, the button is not pressed.
Slide ==
  /\ pc = "idle"
  /\ \E k \in MinK..MaxK : num_questions' = k
  /\ reports' = <<>>
  /\ attempted' = FALSE
  /\ Cleared
  /\ UNCHANGED <<cache, loads, pc, uploaded_file>>

\* The button is pressed: main reaches generator = ExamGenerator(), whose
\* __init__ calls load_models() through st.cache_resource and st.stop()s the
\* run when a model is None.
Construct ==
  /\ pc = "idle"
  /\ uploaded_file # None
  /\ \E ok \in BOOLEAN :
       LET miss == cache = "empty"
           result == IF miss THEN (IF ok THEN "models" ELSE "none") ELSE cache
       IN  /\ miss \/ ok
           /\ cache' = result
           /\ loads' = IF miss THEN loads + 1 ELSE loads
           /\ reports' = (IF miss /\ result = "none" THEN <<ErrLoading>> ELSE <<>>)
                         \o (IF result = "none" THEN <<ErrInit>> ELSE <<>>)
           /\ pc' = IF result = "none" THEN "idle" ELSE "extract"
  /\ Cleared
  /\ attempted' = (cache = "empty")
  /\ UNCHANGED <<uploaded_file, num_questions>>

\* text = extract_text_from_pdf(uploaded_file); sentences = preprocess_text(text);
\* if not sentences: message and return
Extract ==
  /\ pc = "extract"
  /\ LET t == extract_text_from_pdf(uploaded_file)
         s == preprocess_text(t)
     IN  /\ text' = t
         /\ sentences' = s
         /\ reports' = reports \o (IF t = None THEN <<ErrReading>> ELSE <<>>)
                               \o (IF NoSentences(s) THEN <<ErrNoText>> ELSE <<>>)
         /\ pc' = IF NoSentences(s) THEN "idle" ELSE "encode"
  /\ invoked' = invoked \cup {"extract_text_from_pdf", "preprocess_text"}
  /\ UNCHANGED <<cache, loads, attempted, uploaded_file, num_questions, embeddings,
                 selected_indices, pos, outcomes, questions, downloads>>

\* generate_questions is entered: embeddings = self.sentence_model.encode(sentences)
Encode ==
  /\ pc = "encode"
  /\ \E e \in [1..Len(sentences) -> Points] : embeddings' = e
  /\ pc' = IF LoopCount(num_questions, Len(sentences)) > 0 THEN "select" ELSE "generate"
  /\ invoked' = invoked \cup {"generate_questions", "encode"}
  /\ UNCHANGED <<cache, loads, attempted, uploaded_file, num_questions, text, sentences,
                 selected_indices, pos, outcomes, questions, reports, downloads>>

\* encode raises: main's "except Exception" shows the error and the run ends
EncodeFails ==
  /\ pc = "encode"
  /\ reports' = Append(reports, ErrOccurred)
  /\ pc' = "idle"
  /\ invoked' = invoked \cup {"generate_questions", "encode"}
  /\ UNCHANGED <<cache, loads, attempted, uploaded_file, num_questions, text, sentences,
                 embeddings, selected_indices, pos, outcomes, questions, downloads>>

\* one iteration of the selection loop
SelectIter ==
  /\ pc = "select"
  /\ selected_indices' = Iteration(sentences, embeddings, selected_indices)
  /\ pc' = IF Len(selected_indices') >= LoopCount(num_questions, Len(sentences))
           THEN "generate" ELSE "select"
  /\ invoked' = invoked \cup {"select"}
  /\ UNCHANGED <<cache, loads, attempted, uploaded_file, num_questions, text, sentences,
                 embeddings, pos, outcomes, questions, reports, downloads>>

\* one iteration of "for idx in selected_indices"
GenerateIter ==
  /\ pc = "generate"
  /\ pos < Len(selected_indices)
  /\ LET idx == selected_indices[pos + 1]
         qa_input == At(sentences, idx)
     IN  \E r \in PipelineResults(qa_input) :
           /\ outcomes' = Append(outcomes, r)
           /\ IF r.raised
              THEN /\ reports' = Append(reports, ErrGenerating)
                   /\ questions' = questions
              ELSE /\ reports' = reports
                   /\ questions' = IF Len(r.generated) > 0
                                   THEN Append(questions, QAPair(r.generated, qa_input))
                                   ELSE questions
           /\ pos' = AfterIteration(r, pos, Len(selected_indices))
  /\ invoked' = invoked \cup {"qa_pipeline"}
  /\ UNCHANGED <<cache, loads, attempted, pc, uploaded_file, num_questions, text,
                 sentences, embeddings, selected_indices, downloads>>

\* return questions; main: if questions: show, export_to_word, download_button;
\* else: "Could not generate questions"
Finish ==
  /\ pc = "generate"
  /\ pos = Len(selected_indices)
  /\ IF HasQuestions(questions)
     THEN /\ reports' = Append(reports, Success)
          /\ downloads' = <<export_to_word(questions)>>
          /\ invoked' = invoked \cup {"export_to_word"}
     ELSE /\ reports' = Append(reports, ErrNoQuestions)
          /\ downloads' = downloads
          /\ invoked' = invoked
  /\ pc' = "idle"
  /\ UNCHANGED <<cache, loads, attempted, uploaded_file, num_questions, text, sentences,
                 embeddings, selected_indices, pos, outcomes, questions>>

Next ==
  \/ Upload
  \/ Slide
  \/ Construct
  \/ Extract
  \/ Encode
  \/ EncodeFails
  \/ SelectIter
  \/ GenerateIter
  \/ Finish

Spec == Init /\ [][Next]_vars

----------------------------------------------------------------------------
\* Vocabulary of the properties

\* the selection loop of the current run has just ended: selected_indices is
\* final and no selected sentence has been processed yet
SelectionDone == pc = "generate" /\ pos = 0

\* the current run is in the selection loop or at its end
Selecting == pc = "select" \/ SelectionDone

\* generate_questions has returned to main in the current run
Returned ==
  /\ pc = "idle"
  /\ "generate_questions" \in invoked
  /\ ErrOccurred \notin Range(reports)

NoDuplicates(s) == \A p, q \in 1..Len(s) : p # q => s[p] # s[q]

IsPrefixOf(s, t) == Len(s) <= Len(t) /\ s = SubSeq(t, 1, Len(s))

\* mean distance of sentence i to the sentences selected in prev
Score(i, prev) == MeanDist(At(embeddings, i), SelectedEmbeddings(embeddings, prev))

\* the qa_pipeline call for position p of selected_indices produced a question
Produced(p) == ~outcomes[p].raised /\ Len(outcomes[p].generated) > 0

\* the pairs expected after the first p selected sentences have been processed
RECURSIVE ExpectedPairs(_)
ExpectedPairs(p) ==
  IF p = 0 THEN <<>>
  ELSE LET s == At(sentences, selected_indices[p])
       IN  IF Produced(p)
           THEN Append(ExpectedPairs(p - 1), [question |-> <<"question", s>>, answer |-> s])
           ELSE ExpectedPairs(p - 1)

NumReports(msg) == Cardinality({p \in 1..Len(reports) : reports[p] = msg})

AfterExtraction == {"generate_questions", "encode", "select", "qa_pipeline", "export_to_word"}

----------------------------------------------------------------------------
\* C1: when the selection loop has ended, selected_indices has exactly
\* min(num_questions, len(sentences)) elements.
C1_Cardinality ==
  SelectionDone => Len(selected_indices) = Min(num_questions, Len(sentences))

C1_Witness ==
  /\ SelectionDone
  /\ num_questions = 5
  /\ Len(sentences) = 3
  /\ Len(selected_indices) = 3

\* C2: every iteration of the selection loop appends exactly one index to
\* selected_indices, leaves the earlier entries as they were, and the list has
\* no index twice before or after it.
C2_AppendOnlyNoDuplicates ==
  [][ /\ NoDuplicates(selected_indices)
      /\ NoDuplicates(selected_indices')
      /\ pc = "select" =>
           /\ Len(selected_indices') = Len(selected_indices) + 1
           /\ SubSeq(selected_indices', 1, Len(selected_indices)) = selected_indices
      /\ pc = "generate" => selected_indices' = selected_indices ]_vars

C2_Witness ==
  /\ pc = "select"
  /\ Len(selected_indices) = 2
  /\ embeddings[1] = embeddings[2]
  /\ embeddings[2] = embeddings[3]

\* C3: the sequence selected for any smaller request k1 < num_questions, with
\* the same sentences and embeddings, is a prefix of the sequence selected for
\* num_questions.
C3_MonotoneGrowth ==
  SelectionDone =>
    \A k1 \in 1..(num_questions - 1) :
      IsPrefixOf(Select(sentences, embeddings, k1), selected_indices)

C3_Witness ==
  /\ SelectionDone
  /\ num_questions = 3
  /\ selected_indices = <<0, 2, 1>>

\* C4: the seed is index 0, and every later entry of selected_indices is the
\* lowest unselected index whose mean distance to the entries before it is the
\* largest among the unselected indices; embeddings (0,0), (10,0), (0,10) with
\* two questions requested select [0, 1].
C4_FarthestLowestIndex ==
  /\ selected_indices # <<>> => selected_indices[1] = 0
  /\ Selecting => \A p \in 2..Len(selected_indices) :
       LET prev == SubSeq(selected_indices, 1, p - 1)
           c == selected_indices[p]
           unselected == (0..(Len(sentences) - 1)) \ Range(prev)
       IN  /\ c \in unselected
           /\ \A j \in unselected :
                /\ ~Gt(Score(j, prev), Score(c, prev))
                /\ j < c => Gt(Score(c, prev), Score(j, prev))
  /\ ( /\ SelectionDone
       /\ embeddings = << <<0, 0>>, <<10, 0>>, <<0, 10>> >>
       /\ num_questions = 2 ) => selected_indices = <<0, 1>>

C4_Witness ==
  /\ SelectionDone
  /\ embeddings = << <<0, 0>>, <<10, 0>>, <<0, 10>> >>
  /\ num_questions = 2
  /\ selected_indices = <<0, 1>>

\* C5: the question loop produces, in the order of selected_indices, exactly
\* one pair per sentence whose generation call produced a question, with that
\* sentence as the answer, and when generate_questions returns every selected
\* sentence has been processed.
C5_PartialFailure ==
  /\ Len(outcomes) = pos
  /\ pos <= Len(selected_indices)
  /\ questions = ExpectedPairs(pos)
  /\ Returned => pos = Len(selected_indices)

C5_Witness ==
  /\ Returned
  /\ Len(selected_indices) = 3
  /\ Produced(1)
  /\ outcomes[2].raised
  /\ Produced(3)
  /\ Len(questions) = 2
  /\ selected_indices = <<0, 2, 1>>
  /\ questions[2].answer = <<2, MinWords + 1>>

\* C6: every selected sentence dropped from the output has a failure report:
\* the number of "Error generating question" reports equals the number of
\* processed sentences without a pair.
C6_EveryDropReported ==
  NumReports(ErrGenerating) = Len(outcomes) - Len(questions)

\* C7: a run whose extraction failed or gave no text, or whose preprocessing
\* left no sentence, has ended with "no meaningful text" and has entered none
\* of embedding, selection, question generation and export.
C7_NoTextHalts ==
  ("preprocess_text" \in invoked /\ (text = None \/ text = <<>> \/ sentences = <<>>)) =>
    /\ pc = "idle"
    /\ ErrNoText \in Range(reports)
    /\ invoked \cap AfterExtraction = {}
    /\ selected_indices = <<>>
    /\ downloads = <<>>

C7_Witness ==
  /\ "preprocess_text" \in invoked
  /\ Len(text) = 2
  /\ text # None
  /\ sentences = <<>>
  /\ pc = "idle"

\* C8: when every generation call of a run failed, generate_questions returns
\* no pair, the run shows "could not generate questions" and export_to_word is
\* not called; a document is exported only with at least one pair.
C8_TotalFailure ==
  /\ (Returned /\ \A p \in 1..Len(outcomes) : ~Produced(p)) =>
       /\ questions = <<>>
       /\ ErrNoQuestions \in Range(reports)
       /\ "export_to_word" \notin invoked
       /\ downloads = <<>>
  /\ ("export_to_word" \in invoked \/ downloads # <<>>) => Len(questions) >= 1

C8_Witness ==
  /\ Returned
  /\ Len(outcomes) = 3
  /\ outcomes[1].raised
  /\ outcomes[2] = NoOutput
  /\ outcomes[3].raised
  /\ downloads = <<>>

\* C9: the models are constructed at most once, and a run that halts on
\* "Failed to initialize AI models" is a fresh attempt: it executed load_models
\* itself instead of failing on the result of an earlier run.
C9_FreshAttempt ==
  /\ loads <= 1
  /\ ErrInit \in Range(reports) => attempted

\* C10: every entry of selected_indices is an index of sentences; the
\* sentinel -1 is never appended.
C10_IndicesInRange ==
  \A p \in 1..Len(selected_indices) :
    selected_indices[p] \in 0..(Len(sentences) - 1)

C10_Witness ==
  /\ SelectionDone
  /\ Len(sentences) = 3
  /\ Len(selected_indices) = 3
  /\ embeddings[1] = embeddings[2]
  /\ embeddings[2] = embeddings[3]

====
